---- MODULE Spec2Model ----
(***************************************************************************)
(* TrueStar API: the flag-detection and trust-scoring engine.              *)
(*                                                                         *)
(* Numbers.  JavaScript numbers that are not integers (confidences, the    *)
(* running score) are modelled as exact rationals.  A confidence is the    *)
(* integer numerator of a fraction over ConfDen, so 19 stands for 0.95.    *)
(* The running score of calculateTrustScore is an integer numerator over   *)
(* the denominator Den(nr, ng) of the call.  NaN is the value NaN.  The     *)
(* rounding of IEEE-754 doubles in sums and products is modelled for the   *)
(* confidence of a review_bombing flag alone (calculateConfidence): a flag  *)
(* carries it as `confidenceDouble`, next to `confidence`, which is the     *)
(* same value to the nearest 1/ConfDen.                                     *)
(***************************************************************************)
EXTENDS Integers, Sequences, FiniteSets

VARIABLES
    pc,               \* position of the call under way
    redFlags,         \* calculateTrustScore: the redFlags argument
    greenFlags,       \* calculateTrustScore: the greenFlags argument
    score,            \* calculateTrustScore: `let score`, at the end the value returned
    envValid,         \* process.env passes ConfigSchema (OPENAI_API_KEY is set)
    validatedConfig,  \* config.ts: the cached configuration, "null" before the first parse
    requests,         \* number of chat.completions.create requests issued
    response,         \* how the external request settled
    analysis,         \* the promise returned by analyzeContentPatterns
    reviews,          \* the review batch handed to a detector
    flags,            \* detectReviewBombing: `const flags`, at the end the list returned
    verifiedFlags,    \* the list returned by detectHighVerifiedPurchases
    localAnalysis,    \* the record returned by detectLocalFlags
    body,             \* checkAmazonProductHandler: request.body
    reply,            \* checkAmazonProductHandler: what reply.send was given
    callLog,          \* the functions invoked so far, in order of invocation
    env,              \* process.env, as far as config.ts reads it
    configObject,     \* config.ts: the object validatedConfig refers to
    parses,           \* number of calls of ConfigSchema.parse(process.env)
    result            \* config.ts: the latest call of a function and its outcome

scoreVars == <<redFlags, greenFlags, score>>
analyzerVars == <<envValid, validatedConfig, requests, response, analysis>>
detectorVars == <<reviews, flags>>
localVars == <<verifiedFlags, localAnalysis>>
handlerVars == <<body, reply, callLog>>
configVars == <<env, configObject, parses, result>>
vars == <<pc, scoreVars, analyzerVars, detectorVars, localVars, handlerVars, configVars>>

----------------------------------------------------------------------------
(* Bounds of the model *)

\* longest red-flag list handed to calculateTrustScore
MaxRed == 3
\* most flags (red and green together) handed to calculateTrustScore
MaxFlags == 4

\* longest review batch handed to a detector
MaxReviews == 8

\* longest redFlags array in a response of the external service
MaxResponseFlags == 2

\* most calls of getConfig and resetConfigForTests in one run
MaxCalls == 4

\* longest review batch handed to detectLocalFlags and to the detectors run
\* side by side with it
MaxLocalReviews == 23

\* confidences are numerators over ConfDen: 0.05 is 1, 0.5 is 10, 1.0 is 20
ConfDen == 20
\* the confidences the inputs are drawn from: 0, 0.05 and 1.0
ConfValues == {0, 1, ConfDen}

----------------------------------------------------------------------------
(* Helpers *)

RECURSIVE Pow(_, _)
Pow(b, e) == IF e = 0 THEN 1 ELSE b * Pow(b, e - 1)

Max(a, b) == IF a >= b THEN a ELSE b
Min(a, b) == IF a <= b THEN a ELSE b

\* every sequence over S of length at most n
SeqsUpTo(S, n) == UNION {[1..k -> S] : k \in 0..n}

\* the elements of a sequence
Range(seq) == {seq[i] : i \in 1..Len(seq)}

----------------------------------------------------------------------------
(* trust-score-calculator.ts *)

RedTypes == {"review_bombing", "phrase_repetition", "excessive_positivity"}
GreenTypes == {"high_verified_purchases"}

\* FLAG_WEIGHTS with a red weight of the wrong sign (a reward for a red flag)
FLAG_WEIGHTS_RedRewarded ==
    [review_bombing |-> -25,
     phrase_repetition |-> -15,
     excessive_positivity |-> 10,
     high_verified_purchases |-> 20]

\* FLAG_WEIGHTS with the green weight of the wrong sign (a penalty for a green flag)
FLAG_WEIGHTS_GreenPenalised ==
    [review_bombing |-> -25,
     phrase_repetition |-> -15,
     excessive_positivity |-> -10,
     high_verified_purchases |-> -20]

\* const FLAG_WEIGHTS: the own properties of the object literal
FLAG_WEIGHTS ==
    [review_bombing |-> -25,
     phrase_repetition |-> -15,
     excessive_positivity |-> -10,
     high_verified_purchases |-> 20]

\* Property names every object literal inherits from Object.prototype: looking
\* one up in FLAG_WEIGHTS yields a function (truthy, so `|| 0` keeps it).
ObjectPrototypeKeys == {"constructor", "toString"}

DIMINISHING_FACTOR_RED_NUM == 4
DIMINISHING_FACTOR_RED_DEN == 5
DIMINISHING_FACTOR_GREEN_NUM == 9
DIMINISHING_FACTOR_GREEN_DEN == 10
MULTIPLE_RED_FLAGS_THRESHOLD == 2
MULTIPLE_RED_FLAGS_PENALTY_NUM == 4
MULTIPLE_RED_FLAGS_PENALTY_DEN == 5
BASE_SCORE == 50

\* the result of arithmetic on a value that is not a number
NaN == -1

\* `FLAG_WEIGHTS[flag.type as keyof FlagWeights] || 0` is a number
WeightIsNumber(type) ==
    type \in DOMAIN FLAG_WEIGHTS \/ type \notin ObjectPrototypeKeys

\* `FLAG_WEIGHTS[flag.type as keyof FlagWeights] || 0`, when it is a number
Weight(type) ==
    IF type \in DOMAIN FLAG_WEIGHTS THEN FLAG_WEIGHTS[type] ELSE 0

\* the penalty test with >= in place of >
PenaltyAppliesTo_AtThreshold(n) == n >= MULTIPLE_RED_FLAGS_THRESHOLD

\* redFlags.length > MULTIPLE_RED_FLAGS_THRESHOLD, for a list of n red flags
PenaltyAppliesTo(n) == n > MULTIPLE_RED_FLAGS_THRESHOLD

\* The denominator the running score of one call is kept over: a multiple of
\* ConfDen * 5^i (red, index i < nr) and of ConfDen * 10^j (green, index
\* j < ng), with one more factor 5 when the penalty 4/5 is applied.
Den(nr, ng) ==
    ConfDen
      * Pow(5, Max(Max(nr, ng) - 1, 0) + (IF PenaltyAppliesTo(nr) THEN 1 ELSE 0))
      * Pow(2, Max(ng - 1, 0))

\* the red reduce without `Math.pow(DIMINISHING_FACTOR_RED, index)`
RECURSIVE RedFlagImpact_NoDecay(_, _, _)
RedFlagImpact_NoDecay(flagList, index, den) ==
    IF index >= Len(flagList) THEN 0
    ELSE LET flag == flagList[index + 1]
             impact == Weight(flag.type) * flag.confidence
         IN  impact * (den \div ConfDen) + RedFlagImpact_NoDecay(flagList, index + 1, den)

\* redFlags.reduce(...): sum of weight * confidence * 0.8^index, over den
RECURSIVE RedFlagImpact(_, _, _)
RedFlagImpact(flagList, index, den) ==
    IF index >= Len(flagList) THEN 0
    ELSE LET flag == flagList[index + 1]
             weight == Weight(flag.type)
             impact == weight * flag.confidence
             \* impact / ConfDen * 4^index / 5^index, as a numerator over den
             term == impact * Pow(DIMINISHING_FACTOR_RED_NUM, index)
                       * (den \div (ConfDen * Pow(DIMINISHING_FACTOR_RED_DEN, index)))
         IN  term + RedFlagImpact(flagList, index + 1, den)

\* greenFlags.reduce(...): sum of weight * confidence * 0.9^index, over den
RECURSIVE GreenFlagImpact(_, _, _)
GreenFlagImpact(flagList, index, den) ==
    IF index >= Len(flagList) THEN 0
    ELSE LET flag == flagList[index + 1]
             weight == Weight(flag.type)
             impact == weight * flag.confidence
             term == impact * Pow(DIMINISHING_FACTOR_GREEN_NUM, index)
                       * (den \div (ConfDen * Pow(DIMINISHING_FACTOR_GREEN_DEN, index)))
         IN  term + GreenFlagImpact(flagList, index + 1, den)

\* if (redFlags.length > MULTIPLE_RED_FLAGS_THRESHOLD)
PenaltyApplies(red) == PenaltyAppliesTo(Len(red))

\* Math.round of the rational num/den: the nearest integer, halves towards +infinity
MathRound(num, den) == (2 * num + den) \div (2 * den)

\* the clamp without its lower limit: Math.min(100, x)
Clamp_NoFloor(x) == Min(100, x)

\* Math.max(0, Math.min(100, x))
Clamp(x) == Max(0, Min(100, x))

\* the running score with the penalty factor applied to the red impacts alone
RunningScore_PenaltyOnRedAlone(red, green, den) ==
    LET redImpact == RedFlagImpact(red, 0, den)
        rest == BASE_SCORE * den + GreenFlagImpact(green, 0, den)
    IN  IF PenaltyApplies(red)
        THEN rest + (redImpact * MULTIPLE_RED_FLAGS_PENALTY_NUM)
                      \div MULTIPLE_RED_FLAGS_PENALTY_DEN
        ELSE rest + redImpact

\* the running score after `score *= MULTIPLE_RED_FLAGS_PENALTY`, over den
RunningScore(red, green, den) ==
    LET sum == BASE_SCORE * den + RedFlagImpact(red, 0, den)
                 + GreenFlagImpact(green, 0, den)
    IN  IF PenaltyApplies(red)
        THEN (sum * MULTIPLE_RED_FLAGS_PENALTY_NUM) \div MULTIPLE_RED_FLAGS_PENALTY_DEN
        ELSE sum

calculateTrustScore(red, green) ==
    IF \E i \in 1..Len(red) : ~WeightIsNumber(red[i].type) THEN NaN
    ELSE IF \E j \in 1..Len(green) : ~WeightIsNumber(green[j].type) THEN NaN
    ELSE LET den == Den(Len(red), Len(green))
         IN  Clamp(MathRound(RunningScore(red, green, den), den))

----------------------------------------------------------------------------
(* The parts of the state a specification does not exercise stay idle *)

\* no call of calculateTrustScore under way
ScoreIdle ==
    /\ redFlags = <<>>
    /\ greenFlags = <<>>
    /\ score = BASE_SCORE

\* no detector call under way
DetectorIdle ==
    /\ reviews = <<>>
    /\ flags = <<>>

\* no call of analyzeContentPatterns under way
AnalyzerIdle ==
    /\ envValid = TRUE
    /\ validatedConfig = "null"
    /\ requests = 0
    /\ response = [kind |-> "none"]
    /\ analysis = [settled |-> "none", redFlags |-> <<>>]

\* no call of detectHighVerifiedPurchases or detectLocalFlags made
LocalIdle ==
    /\ verifiedFlags = <<>>
    /\ localAnalysis = [redFlags |-> <<>>, greenFlags |-> <<>>]

\* config.ts apart from the cache flag: no variable read, no object parsed, no
\* call made.  Outside SpecConfig getConfig is modelled by envValid and
\* validatedConfig alone.
Unset == "unset (no such variable)"
NoObject == [object |-> 0]
NoResult == [call |-> 0, function |-> "none", threw |-> FALSE, value |-> NoObject]

ConfigIdle ==
    /\ env = [OPENAI_API_KEY |-> Unset, PORT |-> Unset, VITEST |-> Unset]
    /\ configObject = NoObject
    /\ parses = 0
    /\ result = NoResult

\* no request being handled
HandlerIdle ==
    /\ body = [hasReviews |-> FALSE, reviews |-> <<>>, lacking |-> {}]
    /\ reply = [statusCode |-> 0]
    /\ callLog = <<>>

----------------------------------------------------------------------------
(* Specification Spec: calls of calculateTrustScore on typed flag lists *)

Flag(type, confidence) == [type |-> type, confidence |-> confidence]

RedFlagInputs == {Flag(t, c) : t \in RedTypes, c \in ConfValues}
GreenFlagInputs == {Flag(t, c) : t \in GreenTypes, c \in ConfValues}

Init ==
    /\ pc = "call"
    /\ redFlags \in SeqsUpTo(RedFlagInputs, MaxRed)
    /\ greenFlags \in SeqsUpTo(GreenFlagInputs, MaxFlags - Len(redFlags))
    /\ score = BASE_SCORE
    /\ AnalyzerIdle
    /\ DetectorIdle
    /\ LocalIdle
    /\ ConfigIdle
    /\ HandlerIdle

CalculateTrustScore ==
    /\ pc = "call"
    /\ score' = calculateTrustScore(redFlags, greenFlags)
    /\ pc' = "returned"
    /\ UNCHANGED <<redFlags, greenFlags, analyzerVars, detectorVars, localVars, handlerVars,
                   configVars>>

Next == CalculateTrustScore

Spec == Init /\ [][Next]_vars

----------------------------------------------------------------------------
(* Specification SpecAnyType: calls of calculateTrustScore on flag lists     *)
(* whose `type` strings are not confined to the list's own flag kinds       *)

OtherTypes == {"unknown_type", "constructor"}
AllTypes == RedTypes \cup GreenTypes \cup OtherTypes

\* typed flags at every confidence, and a flag of every type at confidence 1.0
AnyRedFlagInputs == RedFlagInputs \cup {Flag(t, ConfDen) : t \in AllTypes}
AnyGreenFlagInputs == GreenFlagInputs \cup {Flag(t, ConfDen) : t \in AllTypes}

InitAnyType ==
    /\ pc = "call"
    /\ redFlags \in SeqsUpTo(AnyRedFlagInputs, MaxRed)
    /\ greenFlags \in SeqsUpTo(AnyGreenFlagInputs, MaxFlags - Len(redFlags))
    /\ score = BASE_SCORE
    /\ AnalyzerIdle
    /\ DetectorIdle
    /\ LocalIdle
    /\ ConfigIdle
    /\ HandlerIdle

SpecAnyType == InitAnyType /\ [][Next]_vars

----------------------------------------------------------------------------
(* Specification SpecScenarioC: calls of calculateTrustScore on the red     *)
(* list review_bombing, phrase_repetition, excessive_positivity (in that    *)
(* order, no green flags) of trust-score-calculator.test.ts, at every       *)
(* confidence on the 0.05 grid from the test's values upwards               *)

\* the test's confidences 0.8, 0.7 and 0.6, as numerators over ConfDen
ScenarioCConfidences == <<16, 14, 12>>

ScenarioCRed(c1, c2, c3) ==
    <<Flag("review_bombing", c1),
      Flag("phrase_repetition", c2),
      Flag("excessive_positivity", c3)>>

InitScenarioC ==
    /\ pc = "call"
    /\ redFlags \in {ScenarioCRed(c1, c2, c3) :
                        c1 \in ScenarioCConfidences[1]..ConfDen,
                        c2 \in ScenarioCConfidences[2]..ConfDen,
                        c3 \in ScenarioCConfidences[3]..ConfDen}
    /\ greenFlags = <<>>
    /\ score = BASE_SCORE
    /\ AnalyzerIdle
    /\ DetectorIdle
    /\ LocalIdle
    /\ ConfigIdle
    /\ HandlerIdle

SpecScenarioC == InitScenarioC /\ [][Next]_vars

----------------------------------------------------------------------------
(* flag-detectors/review-bombing-detector.ts *)

\* A review is a record [id, date, verified, rating]; a review without the
\* optional `date` property has date Undefined.
Undefined == "undefined (no date property)"

MINIMUM_REVIEWS_FOR_BOMBING == 4

\* `!review.date` testing for the empty string alone
NoDate_OnlyEmpty(review) == review.date = ""

\* if (!review.date): the property is absent or the empty string
NoDate(review) == review.date = Undefined \/ review.date = ""

\* position of the entry for `date` in the Map (entries in insertion order), 0 if none
RECURSIVE MapIndex(_, _, _)
MapIndex(map, date, k) ==
    IF k > Len(map) THEN 0
    ELSE IF map[k].date = date THEN k
    ELSE MapIndex(map, date, k + 1)

\* the first loop of detectReviewBombing, from review number `index` on:
\* reviewsByDate.get(date) || [], push, reviewsByDate.set(date, existing)
RECURSIVE GroupByDate(_, _, _)
GroupByDate(batch, index, map) ==
    IF index > Len(batch) THEN map
    ELSE LET review == batch[index]
             k == MapIndex(map, review.date, 1)
         IN  IF NoDate(review) THEN GroupByDate(batch, index + 1, map)
             ELSE IF k = 0
             THEN GroupByDate(batch, index + 1,
                      Append(map, [date |-> review.date, reviews |-> <<review>>]))
             ELSE GroupByDate(batch, index + 1,
                      [map EXCEPT ![k].reviews = Append(@, review)])

\* The doubles of calculateConfidence.  A double d with 0 <= d < 2 is the
\* record [hi, lo] standing for (hi * DoubleLimb + lo) * 2^-56; between 0.5
\* and 1.0 doubles are 8 such units apart, between 1.0 and 2.0 they are 16.
DoubleLimb == Pow(2, 28)
Double(hi, lo) == [hi |-> hi, lo |-> lo]

\* the number literals 0.5, 0.1, 0.2 and 1.0 as the doubles nearest to them
Double_0_5 == Double(134217728, 0)
Double_0_1 == Double(26843545, 161061274)
Double_0_2 == Double(53687091, 53687092)
Double_1_0 == Double(268435456, 0)

\* x < y on doubles
DoubleLess(x, y) == x.hi < y.hi \/ (x.hi = y.hi /\ x.lo < y.lo)

\* Math.min(x, y)
DoubleMin(x, y) == IF DoubleLess(y, x) THEN y ELSE x

\* x + y on doubles whose sum lies in [0.5, 2): the exact sum rounded to the
\* nearest double, a tie going to the double with the even significand
DoubleAdd(x, y) ==
    LET exactLo == (x.lo + y.lo) % DoubleLimb
        exactHi == x.hi + y.hi + ((x.lo + y.lo) \div DoubleLimb)
        ulp == IF exactHi >= DoubleLimb THEN 16 ELSE 8
        rest == exactLo % ulp
        below == exactLo - rest
        up == 2 * rest > ulp \/ (2 * rest = ulp /\ (below \div ulp) % 2 = 1)
        lo == IF up THEN below + ulp ELSE below
    IN  Double(exactHi + (lo \div DoubleLimb), lo % DoubleLimb)

\* `confidence` before Math.min, with `else if (reviews.length >= 5)` read as
\* a second `if`
ConfidenceSum_ElseDropped(dateReviews) ==
    LET n == Len(dateReviews)
        base == Double_0_5
        sized == IF n >= 10
                 THEN DoubleAdd(DoubleAdd(base, Double_0_2), Double_0_1)
                 ELSE IF n >= 5 THEN DoubleAdd(base, Double_0_1) ELSE base
        unverifiedCount == Cardinality({i \in 1..n : ~dateReviews[i].verified})
        unverified == IF 10 * unverifiedCount > 7 * n THEN DoubleAdd(sized, Double_0_2)
                      ELSE IF 2 * unverifiedCount > n THEN DoubleAdd(sized, Double_0_1)
                      ELSE sized
        allSameRating == n > 0 /\ \A i \in 1..n : dateReviews[i].rating = dateReviews[1].rating
    IN  IF allSameRating THEN DoubleAdd(unverified, Double_0_1) ELSE unverified

\* `let confidence = 0.5` and the three `confidence +=` of calculateConfidence,
\* as the doubles the code adds.  unverifiedCount / reviews.length is the
\* double nearest to the ratio and 0.7 (0.5) the double nearest to 7/10 (1/2),
\* so `unverifiedRatio > 0.7` holds exactly when 10 * unverifiedCount > 7 * n.
ConfidenceSum(dateReviews) ==
    LET n == Len(dateReviews)
        base == Double_0_5
        sized == IF n >= 10 THEN DoubleAdd(base, Double_0_2)
                 ELSE IF n >= 5 THEN DoubleAdd(base, Double_0_1) ELSE base
        unverifiedCount == Cardinality({i \in 1..n : ~dateReviews[i].verified})
        unverified == IF 10 * unverifiedCount > 7 * n THEN DoubleAdd(sized, Double_0_2)
                      ELSE IF 2 * unverifiedCount > n THEN DoubleAdd(sized, Double_0_1)
                      ELSE sized
        allSameRating == n > 0 /\ \A i \in 1..n : dateReviews[i].rating = dateReviews[1].rating
    IN  IF allSameRating THEN DoubleAdd(unverified, Double_0_1) ELSE unverified

\* calculateConfidence(reviews): return Math.min(confidence, 1.0), the double
calculateConfidence(dateReviews) == DoubleMin(ConfidenceSum(dateReviews), Double_1_0)

\* calculateConfidence with >= in place of > in both ratio tests
BombingConfidence_RatioNotStrict(dateReviews) ==
    LET n == Len(dateReviews)
        sizeBonus == IF n >= 10 THEN 4 ELSE IF n >= 5 THEN 2 ELSE 0
        unverifiedCount == Cardinality({i \in 1..n : ~dateReviews[i].verified})
        unverifiedBonus == IF 10 * unverifiedCount >= 7 * n THEN 4
                           ELSE IF 2 * unverifiedCount >= n THEN 2 ELSE 0
        allSameRating == n > 0 /\ \A i \in 1..n : dateReviews[i].rating = dateReviews[1].rating
        sameRatingBonus == IF allSameRating THEN 2 ELSE 0
    IN  Min(10 + sizeBonus + unverifiedBonus + sameRatingBonus, ConfDen)

\* calculateConfidence(reviews) of the detector to the nearest 1/ConfDen, the
\* value the exact arithmetic of calculateTrustScore is given.  The sums are
\* exact here; as doubles (calculateConfidence) some of them fall one ulp
\* short of the tenth: 0.5 + 0.2 + 0.1 is 0.7999999999999999.
BombingConfidence(dateReviews) ==
    LET n == Len(dateReviews)
        sizeBonus == IF n >= 10 THEN 4 ELSE IF n >= 5 THEN 2 ELSE 0
        unverifiedCount == Cardinality({i \in 1..n : ~dateReviews[i].verified})
        \* unverifiedRatio > 0.7, unverifiedRatio > 0.5
        unverifiedBonus == IF 10 * unverifiedCount > 7 * n THEN 4
                           ELSE IF 2 * unverifiedCount > n THEN 2 ELSE 0
        allSameRating == n > 0 /\ \A i \in 1..n : dateReviews[i].rating = dateReviews[1].rating
        sameRatingBonus == IF allSameRating THEN 2 ELSE 0
    IN  Min(10 + sizeBonus + unverifiedBonus + sameRatingBonus, ConfDen)

\* the group test with > in place of >=
IsBombing_Strict(dateReviews) == Len(dateReviews) > MINIMUM_REVIEWS_FOR_BOMBING

\* if (dateReviews.length >= MINIMUM_REVIEWS_FOR_BOMBING)
IsBombing(dateReviews) == Len(dateReviews) >= MINIMUM_REVIEWS_FOR_BOMBING

\* the flag with reviewCount taken from the whole batch
BombingFlag_CountsBatch(date, dateReviews, batch) ==
    [type |-> "review_bombing",
     confidence |-> BombingConfidence(dateReviews),
     confidenceDouble |-> calculateConfidence(dateReviews),
     details |-> [date |-> date,
                  reviewCount |-> Len(batch),
                  hoursSpan |-> 24,
                  reviewIds |-> [i \in 1..Len(dateReviews) |-> dateReviews[i].id]]]

\* const flag: ReviewBombingFlag = {...} for one Map entry; its confidence is
\* written twice, to the nearest 1/ConfDen and as the double
BombingFlag(date, dateReviews, batch) ==
    [type |-> "review_bombing",
     confidence |-> BombingConfidence(dateReviews),
     confidenceDouble |-> calculateConfidence(dateReviews),
     details |-> [date |-> date,
                  reviewCount |-> Len(dateReviews),
                  hoursSpan |-> 24,
                  reviewIds |-> [i \in 1..Len(dateReviews) |-> dateReviews[i].id]]]

\* the second loop with each flag put in front of the list (unshift for push)
RECURSIVE FlagsOf_Unshift(_, _, _)
FlagsOf_Unshift(map, k, batch) ==
    IF k > Len(map) THEN <<>>
    ELSE IF IsBombing(map[k].reviews)
    THEN FlagsOf_Unshift(map, k + 1, batch) \o <<BombingFlag(map[k].date, map[k].reviews, batch)>>
    ELSE FlagsOf_Unshift(map, k + 1, batch)

\* the second loop: for (const [date, dateReviews] of reviewsByDate), from entry k on
RECURSIVE FlagsOf(_, _, _)
FlagsOf(map, k, batch) ==
    IF k > Len(map) THEN <<>>
    ELSE IF IsBombing(map[k].reviews)
    THEN <<BombingFlag(map[k].date, map[k].reviews, batch)>> \o FlagsOf(map, k + 1, batch)
    ELSE FlagsOf(map, k + 1, batch)

detectReviewBombing(batch) == FlagsOf(GroupByDate(batch, 1, <<>>), 1, batch)

\* The batches the detector is run on.  Review number i has id i; its date is
\* drawn from two date strings and "no date", which a batch writes either by
\* leaving the property out or as the empty string; verified and rating
\* follow one of three profiles.
DateStrings == {"2024-01-15", "2024-01-16"}
DateChoices == DateStrings \cup {"none"}
MissingDates == {Undefined, ""}
Profiles == {"verified same rating", "unverified same rating", "mixed"}

ReviewAt(i, choice, missing, profile) ==
    [id |-> i,
     date |-> IF choice = "none" THEN missing ELSE choice,
     verified |-> CASE profile = "verified same rating" -> TRUE
                    [] profile = "unverified same rating" -> FALSE
                    [] profile = "mixed" -> (i % 2 = 0),
     rating |-> IF profile = "mixed" THEN 1 + (i % 5) ELSE 5]

Batch(choices, missing, profile) ==
    [i \in 1..Len(choices) |-> ReviewAt(i, choices[i], missing, profile)]

InitBombing ==
    /\ pc = "detect"
    /\ \E choices \in SeqsUpTo(DateChoices, MaxReviews), missing \in MissingDates,
          profile \in Profiles :
          reviews = Batch(choices, missing, profile)
    /\ flags = <<>>
    /\ ScoreIdle
    /\ AnalyzerIdle
    /\ LocalIdle
    /\ ConfigIdle
    /\ HandlerIdle

DetectReviewBombing ==
    /\ pc = "detect"
    /\ flags' = detectReviewBombing(reviews)
    /\ pc' = "detected"
    /\ UNCHANGED <<reviews, scoreVars, configVars, analyzerVars, localVars, handlerVars>>

NextBombing == DetectReviewBombing

SpecBombing == InitBombing /\ [][NextBombing]_vars

----------------------------------------------------------------------------
(* flag-detectors/verified-purchases-detector.ts *)

VERIFIED_PURCHASE_THRESHOLD == 70

\* the percentage truncated instead of rounded: Math.floor in place of Math.round
Percentage_Truncated(verifiedCount, total) == (verifiedCount * 100) \div total

\* Math.round((verifiedCount / reviews.length) * 100)
Percentage(verifiedCount, total) == MathRound(verifiedCount * 100, total)

\* calculateConfidence(percentage) without its first line: 0.85 from 85 up
VerifiedConfidence_NoTopBand(percentage) ==
    IF percentage >= 85 THEN 17
    ELSE IF percentage >= 80 THEN 15
    ELSE IF percentage >= 75 THEN 13
    ELSE 11

\* calculateConfidence(percentage) of the detector, in units of 1/ConfDen:
\* 0.95, 0.85, 0.75, 0.65, 0.55
VerifiedConfidence(percentage) ==
    IF percentage >= 90 THEN 19
    ELSE IF percentage >= 85 THEN 17
    ELSE IF percentage >= 80 THEN 15
    ELSE IF percentage >= 75 THEN 13
    ELSE 11

detectHighVerifiedPurchases(batch) ==
    IF Len(batch) = 0 THEN <<>>
    ELSE LET verifiedCount == Cardinality({i \in 1..Len(batch) : batch[i].verified})
             percentage == Percentage(verifiedCount, Len(batch))
         IN  IF percentage >= VERIFIED_PURCHASE_THRESHOLD
             THEN <<[type |-> "high_verified_purchases",
                     confidence |-> VerifiedConfidence(percentage),
                     details |-> [percentage |-> percentage]]>>
             ELSE <<>>

----------------------------------------------------------------------------
(* flag-detectors/index.ts *)

\* [...list]: a new array holding the elements of `list` in order
Spread(list) == [i \in 1..Len(list) |-> list[i]]

\* detectLocalFlags with the two lists exchanged
detectLocalFlags_Exchanged(batch) ==
    [redFlags |-> Spread(detectHighVerifiedPurchases(batch)),
     greenFlags |-> Spread(detectReviewBombing(batch))]

detectLocalFlags(batch) ==
    [redFlags |-> Spread(detectReviewBombing(batch)),
     greenFlags |-> Spread(detectHighVerifiedPurchases(batch))]

----------------------------------------------------------------------------
(* Specification SpecLocal: detectReviewBombing, detectHighVerifiedPurchases *)
(* and detectLocalFlags called, in any order, on one batch                  *)

\* The batches: n reviews of which u are unverified, the unverified ones
\* first or last; all on one date, on two dates in turn, or undated; all of
\* one rating or of ratings in turn.  Review number i has id i.
Layouts == {"unverified first", "unverified last"}
DatePatterns == {"one date", "two dates", "undated"}
RatingPatterns == {"same rating", "ratings in turn"}

LocalReviewAt(i, n, u, layout, dates, ratings) ==
    [id |-> i,
     date |-> CASE dates = "one date" -> "2024-01-15"
                [] dates = "two dates" -> (IF i % 2 = 1 THEN "2024-01-15" ELSE "2024-01-16")
                [] dates = "undated" -> Undefined,
     verified |-> IF layout = "unverified first" THEN i > u ELSE i <= n - u,
     rating |-> IF ratings = "same rating" THEN 5 ELSE 1 + (i % 5)]

LocalBatch(n, u, layout, dates, ratings) ==
    [i \in 1..n |-> LocalReviewAt(i, n, u, layout, dates, ratings)]

InitLocal ==
    /\ pc = "local"
    /\ \E n \in 0..MaxLocalReviews :
          \E u \in 0..n, layout \in Layouts, dates \in DatePatterns, ratings \in RatingPatterns :
              reviews = LocalBatch(n, u, layout, dates, ratings)
    /\ flags = <<>>
    /\ LocalIdle
    /\ ConfigIdle
    /\ HandlerIdle
    /\ ScoreIdle
    /\ AnalyzerIdle

CallDetectReviewBombing ==
    /\ pc = "local"
    /\ "detectReviewBombing" \notin Range(callLog)
    /\ flags' = detectReviewBombing(reviews)
    /\ callLog' = Append(callLog, "detectReviewBombing")
    /\ UNCHANGED <<pc, reviews, localVars, body, reply, scoreVars, configVars, analyzerVars>>

CallDetectHighVerifiedPurchases ==
    /\ pc = "local"
    /\ "detectHighVerifiedPurchases" \notin Range(callLog)
    /\ verifiedFlags' = detectHighVerifiedPurchases(reviews)
    /\ callLog' = Append(callLog, "detectHighVerifiedPurchases")
    /\ UNCHANGED <<pc, detectorVars, localAnalysis, body, reply, scoreVars, configVars,
                   analyzerVars>>

CallDetectLocalFlags ==
    /\ pc = "local"
    /\ "detectLocalFlags" \notin Range(callLog)
    /\ localAnalysis' = detectLocalFlags(reviews)
    /\ callLog' = Append(callLog, "detectLocalFlags")
    /\ UNCHANGED <<pc, detectorVars, verifiedFlags, body, reply, scoreVars, configVars,
                   analyzerVars>>

NextLocal ==
    \/ CallDetectReviewBombing
    \/ CallDetectHighVerifiedPurchases
    \/ CallDetectLocalFlags

SpecLocal == InitLocal /\ [][NextLocal]_vars

----------------------------------------------------------------------------
(* content-pattern-analyzer/index.ts *)

\* A candidate flag of a response is a record [type, confidence, details];
\* details is [present, illTyped, reviewIds]: the keys the object holds, those
\* among them whose value is not of the type the schema asks for, and the
\* value of the key reviewIds (a list of review ids).

SchemaTypes == {"phrase_repetition", "excessive_positivity", "review_bombing"}

\* the keys of `details` in the z.object of each member of the union
DetailsKeys(type) ==
    CASE type = "phrase_repetition" -> {"phrase", "reviewIds"}
      [] type = "excessive_positivity" -> {"reviewIds", "keywords"}
      [] type = "review_bombing" -> {"date", "reviewCount", "hoursSpan", "reviewIds"}

\* the keys declared .optional()
OptionalDetailsKeys(type) ==
    IF type = "excessive_positivity" THEN {"keywords"} ELSE {}

\* the confidence check without its upper limit: z.number().min(0)
ConfidenceValid_NoMax(confidence) == confidence >= 0

\* confidence: z.number().min(0).max(1)
ConfidenceValid(confidence) == confidence >= 0 /\ confidence <= ConfDen

\* details: z.object({...}) of the member for `type`
DetailsValid(type, details) ==
    /\ (DetailsKeys(type) \ OptionalDetailsKeys(type)) \subseteq details.present
    /\ DetailsKeys(type) \cap details.illTyped = {}

\* one element of redFlags against z.discriminatedUnion('type', [...])
FlagValid(flag) ==
    /\ flag.type \in SchemaTypes
    /\ ConfidenceValid(flag.confidence)
    /\ DetailsValid(flag.type, flag.details)

\* what zod returns for a valid element: keys the schema does not know are stripped
FlagData(flag) ==
    [type |-> flag.type,
     confidence |-> flag.confidence,
     details |-> [present |-> flag.details.present \cap DetailsKeys(flag.type),
                  illTyped |-> {},
                  reviewIds |-> flag.details.reviewIds]]

\* validation element by element: the elements that fail are dropped and the
\* others returned
AnalysisResponseSchema_safeParse_KeepValid(flagList) ==
    LET valid == SelectSeq(flagList, FlagValid)
    IN  [success |-> TRUE, data |-> [i \in 1..Len(valid) |-> FlagData(valid[i])]]

\* AnalysisResponseSchema.safeParse(parsedContent), parsedContent an object
\* whose redFlags is the array `flagList`
AnalysisResponseSchema_safeParse(flagList) ==
    IF \A i \in 1..Len(flagList) : FlagValid(flagList[i])
    THEN [success |-> TRUE, data |-> [i \in 1..Len(flagList) |-> FlagData(flagList[i])]]
    ELSE [success |-> FALSE, data |-> <<>>]

\* the catch block with the error thrown again
CatchBlock_Rethrow == [settled |-> "rejected", redFlags |-> <<>>]

\* catch (error) { log.error(...); return { redFlags: [] }; }
CatchBlock == [settled |-> "fulfilled", redFlags |-> <<>>]

\* getConfig(): throws when nothing is cached and process.env fails ConfigSchema
GetConfigThrows == validatedConfig = "null" /\ ~envValid

\* lines 75-104 of analyzeContentPatterns: what the promise settles to once
\* the request has settled as `resp`
AfterAwait(resp) ==
    IF resp.kind = "rejected" THEN CatchBlock                \* create() rejected
    ELSE IF resp.kind = "no_content" THEN CatchBlock         \* if (!content) throw
    ELSE IF resp.kind = "not_json" THEN CatchBlock           \* JSON.parse throws
    ELSE IF resp.kind = "json_other" THEN CatchBlock         \* safeParse fails
    ELSE LET validationResult == AnalysisResponseSchema_safeParse(resp.redFlags)
         IN  IF ~validationResult.success THEN CatchBlock
             ELSE [settled |-> "fulfilled", redFlags |-> validationResult.data]

\* the request counter after two calls of chat.completions.create (a retry)
RequestsAfterCreate_Retried(n) == n + 2

\* the request counter after the one call of chat.completions.create
RequestsAfterCreate(n) == n + 1

\* analyzeContentPatterns up to its await: getConfig, new OpenAI, the prompt,
\* chat.completions.create
AnalyzeStart ==
    /\ pc = "analyze"
    /\ IF GetConfigThrows
       THEN /\ analysis' = CatchBlock
            /\ pc' = "analyzed"
            /\ UNCHANGED <<validatedConfig, requests>>
       ELSE /\ validatedConfig' = "config"
            /\ requests' = RequestsAfterCreate(requests)
            /\ analysis' = [settled |-> "pending", redFlags |-> <<>>]
            /\ pc' = "awaiting"
    /\ UNCHANGED <<envValid, response, scoreVars, configVars, detectorVars, localVars, handlerVars>>

\* the candidate flags a response may hold
ResponseTypes == SchemaTypes \cup {"high_verified_purchases", "unknown_type"}
\* -0.05, 0, 1.0 and 1.05
ResponseConfidences == {-1, 0, ConfDen, ConfDen + 1}
ResponseDetails ==
    {[present |-> {"reviewIds", "averageRating"}, illTyped |-> {}, reviewIds |-> <<1>>],
     [present |-> {"date", "reviewCount", "hoursSpan", "reviewIds"}, illTyped |-> {},
      reviewIds |-> <<1>>],
     [present |-> {"phrase", "reviewIds", "keywords"}, illTyped |-> {"keywords"},
      reviewIds |-> <<1>>]}
ResponseFlags ==
    {[type |-> t, confidence |-> c, details |-> d] :
        t \in ResponseTypes, c \in ResponseConfidences, d \in ResponseDetails}

\* how the request can settle: rejected (network or API failure), resolved
\* without message content, with content that is not JSON, with JSON that is
\* not an object holding a redFlags array, or with such an object
Responses ==
    {[kind |-> k] : k \in {"rejected", "no_content", "not_json", "json_other"}}
      \cup {[kind |-> "json", redFlags |-> f] :
              f \in SeqsUpTo(ResponseFlags, MaxResponseFlags)}

\* the request settles and analyzeContentPatterns runs to its return
AnalyzeSettle ==
    /\ pc = "awaiting"
    /\ \E resp \in Responses :
          /\ response' = resp
          /\ analysis' = AfterAwait(resp)
    /\ pc' = "analyzed"
    /\ UNCHANGED <<envValid, validatedConfig, requests, scoreVars, configVars, detectorVars,
                   localVars, handlerVars>>

InitAnalyzer ==
    /\ pc = "analyze"
    /\ envValid \in BOOLEAN
    /\ validatedConfig \in {"null", "config"}
    /\ requests = 0
    /\ response = [kind |-> "none"]
    /\ analysis = [settled |-> "none", redFlags |-> <<>>]
    /\ ScoreIdle
    /\ DetectorIdle
    /\ LocalIdle
    /\ ConfigIdle
    /\ HandlerIdle

NextAnalyzer == AnalyzeStart \/ AnalyzeSettle

SpecAnalyzer == InitAnalyzer /\ [][NextAnalyzer]_vars

----------------------------------------------------------------------------
(* check-amazon-product/index.ts: checkAmazonProductHandler *)

\* The request body is [hasReviews, reviews, lacking]: whether it holds the
\* key `reviews`, the array under it, and the positions of the array whose
\* review lacks a required field.

\* CheckAmazonProductRequest.reviews: minItems, maxItems
ReviewsMinItems == 1
ReviewsMaxItems == 100

\* checkAmazonProductBody.safeParse(request.body)
checkAmazonProductBody_safeParse(requestBody) ==
    IF /\ requestBody.hasReviews
       /\ Len(requestBody.reviews) >= ReviewsMinItems
       /\ Len(requestBody.reviews) <= ReviewsMaxItems
       /\ requestBody.lacking = {}
    THEN [success |-> TRUE, data |-> [reviews |-> requestBody.reviews]]
    ELSE [success |-> FALSE, data |-> [reviews |-> <<>>]]

\* the early return never taken
ValidationFailed_Never(validationResult) == FALSE

\* if (!validationResult.success)
ValidationFailed(validationResult) == ~validationResult.success

\* the two lists joined with the classifier's flags first
AllRedFlags_ClassifierFirst(local, content) == content.redFlags \o local.redFlags

\* const allRedFlags = [...localAnalysis.redFlags, ...contentAnalysis.redFlags]
AllRedFlags(local, content) == local.redFlags \o content.redFlags

\* const allGreenFlags = [...localAnalysis.greenFlags]
AllGreenFlags(local) == Spread(local.greenFlags)

\* the response with both flag fields set whatever the lists hold
Response_FlagsAlwaysSet(trustScore, data, allRedFlags, allGreenFlags) ==
    [statusCode |-> 200,
     trustScore |-> trustScore,
     analyzed |-> Len(data.reviews),
     total |-> Len(data.reviews),
     hasGreenFlags |-> TRUE,
     greenFlags |-> allGreenFlags,
     hasRedFlags |-> TRUE,
     redFlags |-> allRedFlags]

\* const response = {...} with greenFlags and redFlags set when not empty
Response(trustScore, data, allRedFlags, allGreenFlags) ==
    [statusCode |-> 200,
     trustScore |-> trustScore,
     analyzed |-> Len(data.reviews),
     total |-> Len(data.reviews),
     hasGreenFlags |-> Len(allGreenFlags) > 0,
     greenFlags |-> allGreenFlags,
     hasRedFlags |-> Len(allRedFlags) > 0,
     redFlags |-> allRedFlags]

\* The handler up to its await: validation, then detectLocalFlags run to its
\* return, then analyzeContentPatterns run up to its own await.
HandleRequest ==
    /\ pc = "request"
    /\ LET validationResult == checkAmazonProductBody_safeParse(body)
       IN  IF ValidationFailed(validationResult)
           THEN /\ reply' = [statusCode |-> 400]
                /\ pc' = "replied"
                /\ UNCHANGED <<reviews, localAnalysis, callLog, analysis,
                               validatedConfig, requests>>
           ELSE /\ reviews' = validationResult.data.reviews
                /\ localAnalysis' = detectLocalFlags(validationResult.data.reviews)
                /\ callLog' = callLog \o <<"detectLocalFlags", "analyzeContentPatterns">>
                /\ IF GetConfigThrows
                   THEN /\ analysis' = CatchBlock
                        /\ pc' = "analyzed"
                        /\ UNCHANGED <<validatedConfig, requests>>
                   ELSE /\ validatedConfig' = "config"
                        /\ requests' = RequestsAfterCreate(requests)
                        /\ analysis' = [settled |-> "pending", redFlags |-> <<>>]
                        /\ pc' = "awaiting"
                /\ UNCHANGED reply
    /\ UNCHANGED <<body, envValid, response, scoreVars, configVars, flags, verifiedFlags>>

\* the ids a flag of the classifier may list: of the first review, or of no
\* review of the batch (ids of the batch are 1, 2, ...)
ClassifierReviewIds == {<<1>>, <<0>>}

\* the flags the classifier may answer with while a request is handled: one
\* of each schema type that passes validation, and one that fails it
HandlerResponseFlags ==
    {[type |-> t, confidence |-> ConfDen,
      details |-> [present |-> DetailsKeys(t), illTyped |-> {}, reviewIds |-> ids]] :
        t \in SchemaTypes, ids \in ClassifierReviewIds}
      \cup {[type |-> "high_verified_purchases", confidence |-> ConfDen,
             details |-> [present |-> {"percentage"}, illTyped |-> {}, reviewIds |-> <<>>]]}

HandlerResponses ==
    {[kind |-> k] : k \in {"rejected", "no_content", "not_json", "json_other"}}
      \cup {[kind |-> "json", redFlags |-> f] :
              f \in SeqsUpTo(HandlerResponseFlags, MaxResponseFlags)}

\* the request of the classifier settles and analyzeContentPatterns runs to
\* its return, while the handler waits in Promise.all
ClassifierSettles ==
    /\ pc = "awaiting"
    /\ \E resp \in HandlerResponses :
          /\ response' = resp
          /\ analysis' = AfterAwait(resp)
    /\ pc' = "analyzed"
    /\ UNCHANGED <<envValid, validatedConfig, requests, scoreVars, configVars, detectorVars,
                   localVars, handlerVars>>

\* Promise.all has settled: the handler goes on from its await to reply.send;
\* a rejection leaves the handler by exception and the error handler answers
HandlerJoin ==
    /\ pc = "analyzed"
    /\ IF analysis.settled = "rejected"
       THEN /\ reply' = [statusCode |-> 500]
            /\ UNCHANGED <<scoreVars, callLog>>
       ELSE LET allRedFlags == AllRedFlags(localAnalysis, analysis)
                allGreenFlags == AllGreenFlags(localAnalysis)
                trustScore == calculateTrustScore(allRedFlags, allGreenFlags)
            IN  /\ redFlags' = allRedFlags
                /\ greenFlags' = allGreenFlags
                /\ score' = trustScore
                /\ callLog' = Append(callLog, "calculateTrustScore")
                /\ reply' = Response(trustScore, [reviews |-> reviews],
                                     allRedFlags, allGreenFlags)
    /\ pc' = "replied"
    /\ UNCHANGED <<body, analyzerVars, detectorVars, localVars, configVars>>

\* The bodies: without `reviews`; with a batch of 0 to MaxReviews reviews;
\* with a review lacking a required field; with one more than
\* ReviewsMaxItems reviews.
Bodies ==
    {[hasReviews |-> FALSE, reviews |-> <<>>, lacking |-> {}]}
      \cup UNION {{[hasReviews |-> TRUE,
                     reviews |-> LocalBatch(n, u, layout, dates, ratings),
                     lacking |-> {}] :
                       u \in 0..n, layout \in Layouts,
                       dates \in DatePatterns, ratings \in RatingPatterns} :
                    n \in 0..MaxReviews}
      \cup {[hasReviews |-> TRUE,
             reviews |-> LocalBatch(n, 0, "unverified first", "one date", "same rating"),
             lacking |-> {n}] : n \in 1..2}
      \cup {[hasReviews |-> TRUE,
             reviews |-> LocalBatch(n, 0, "unverified first", "one date", "same rating"),
             lacking |-> {}] : n \in {ReviewsMaxItems + 1}}

InitHandler ==
    /\ pc = "request"
    /\ body \in Bodies
    /\ reply = [statusCode |-> 0]
    /\ callLog = <<>>
    /\ envValid \in BOOLEAN
    /\ validatedConfig = "null"
    /\ requests = 0
    /\ response = [kind |-> "none"]
    /\ analysis = [settled |-> "none", redFlags |-> <<>>]
    /\ ScoreIdle
    /\ DetectorIdle
    /\ LocalIdle
    /\ ConfigIdle

NextHandler == HandleRequest \/ ClassifierSettles \/ HandlerJoin

SpecHandler == InitHandler /\ [][NextHandler]_vars

----------------------------------------------------------------------------
(* config/config.ts *)

\* process.env as config.ts reads it: a variable is the string it is set to,
\* or Unset.  The variables of ConfigSchema not listed here stay unset and
\* take their defaults.
EnvKeys == {Unset, "", "key-a", "key-b"}
EnvPorts == {Unset, "99999", "not-a-number"}
EnvVitests == {Unset, "", "true"}
Envs == [OPENAI_API_KEY : EnvKeys, PORT : EnvPorts, VITEST : EnvVitests]

\* ConfigSchema accepts the environment: OPENAI_API_KEY is a string of at
\* least one character and PORT, when set, coerces to a positive integer
ConfigSchema_accepts(e) ==
    /\ e.OPENAI_API_KEY \notin {Unset, ""}
    /\ e.PORT # "not-a-number"

\* ConfigSchema.parse(e) for an accepted e: a new object, `object` being its
\* identity (the serial number of the parse that made it)
ConfigSchema_parse(e, serial) ==
    [object |-> serial,
     OPENAI_API_KEY |-> e.OPENAI_API_KEY,
     PORT |-> IF e.PORT = Unset THEN 8080 ELSE 99999]

\* the cache test that never finds the cache filled
CacheEmpty_Always(cache) == cache \in {"null", "config"}

\* if (!validatedConfig)
CacheEmpty(cache) == cache = "null"

\* if (!process.env.VITEST): the variable is unset or the empty string
NotUnderVitest(e) == e.VITEST \in {Unset, ""}

\* the outcome of call number `call`
Outcome(call, function, threw, value) ==
    [call |-> call, function |-> function, threw |-> threw, value |-> value]

\* getConfig()
GetConfig ==
    /\ pc = "config"
    /\ result.call < MaxCalls
    /\ IF CacheEmpty(validatedConfig)
       THEN /\ parses' = parses + 1
            /\ IF ConfigSchema_accepts(env)
               THEN LET parsed == ConfigSchema_parse(env, parses + 1)
                    IN  /\ validatedConfig' = "config"
                        /\ configObject' = parsed
                        /\ result' = Outcome(result.call + 1, "getConfig", FALSE, parsed)
               ELSE /\ result' = Outcome(result.call + 1, "getConfig", TRUE, NoObject)
                    /\ UNCHANGED <<validatedConfig, configObject>>
       ELSE /\ result' = Outcome(result.call + 1, "getConfig", FALSE, configObject)
            /\ UNCHANGED <<validatedConfig, configObject, parses>>
    /\ UNCHANGED <<pc, env, envValid, requests, response, analysis, scoreVars,
                   detectorVars, localVars, handlerVars>>

\* resetConfigForTests()
ResetConfigForTests ==
    /\ pc = "config"
    /\ result.call < MaxCalls
    /\ IF NotUnderVitest(env)
       THEN /\ result' = Outcome(result.call + 1, "resetConfigForTests", TRUE, NoObject)
            /\ UNCHANGED <<validatedConfig, configObject>>
       ELSE /\ validatedConfig' = "null"
            /\ configObject' = NoObject
            /\ result' = Outcome(result.call + 1, "resetConfigForTests", FALSE, NoObject)
    /\ UNCHANGED <<pc, env, envValid, parses, requests, response, analysis, scoreVars,
                   detectorVars, localVars, handlerVars>>

\* the environment changes between two calls (vi.stubEnv, delete process.env.X)
SetEnv ==
    /\ pc = "config"
    /\ \E e \in Envs :
          /\ e # env
          /\ env' = e
          /\ envValid' = ConfigSchema_accepts(e)
    /\ UNCHANGED <<pc, validatedConfig, configObject, parses, result, requests, response,
                   analysis, scoreVars, detectorVars, localVars, handlerVars>>

\* the module is loaded: `let validatedConfig: Config | null = null`
InitConfig ==
    /\ pc = "config"
    /\ env \in Envs
    /\ envValid = ConfigSchema_accepts(env)
    /\ validatedConfig = "null"
    /\ configObject = NoObject
    /\ parses = 0
    /\ result = NoResult
    /\ requests = 0
    /\ response = [kind |-> "none"]
    /\ analysis = [settled |-> "none", redFlags |-> <<>>]
    /\ ScoreIdle
    /\ DetectorIdle
    /\ LocalIdle
    /\ HandlerIdle

NextConfig == GetConfig \/ ResetConfigForTests \/ SetEnv

SpecConfig == InitConfig /\ [][NextConfig]_vars

----------------------------------------------------------------------------
(* The score as the specification words it *)

\* w: the per-type table, 0 for any other type
ClaimWeight(type) ==
    CASE type = "review_bombing" -> -25
      [] type = "phrase_repetition" -> -15
      [] type = "excessive_positivity" -> -10
      [] type = "high_verified_purchases" -> 20
      [] OTHER -> 0

\* sum over the first n positions (0-based i) of w(type_i) * confidence_i *
\* (num/dn)^i, as a numerator over den
RECURSIVE ClaimDecayedSum(_, _, _, _, _)
ClaimDecayedSum(flagList, n, num, dn, den) ==
    IF n = 0 THEN 0
    ELSE ClaimDecayedSum(flagList, n - 1, num, dn, den)
           + ClaimWeight(flagList[n].type) * flagList[n].confidence * Pow(num, n - 1)
               * (den \div (ConfDen * Pow(dn, n - 1)))

\* 50 + the red impacts (decay 0.8) + the green impacts (decay 0.9), over den
ClaimUnscaled(red, green, den) ==
    50 * den + ClaimDecayedSum(red, Len(red), 4, 5, den)
      + ClaimDecayedSum(green, Len(green), 9, 10, den)

\* s is the rational num/den rounded to the nearest integer (halves up) and
\* clamped to [0, 100]
IsRoundedClamped(s, num, den) ==
    /\ s \in 0..100
    /\ s > 0 => (2 * s - 1) * den <= 2 * num
    /\ s < 100 => 2 * num < (2 * s + 1) * den

Returned == pc = "returned"

----------------------------------------------------------------------------
(* C1: for red and green lists of known flag types with confidences in     *)
(* [0,1], calculateTrustScore returns an integer s with 0 <= s <= 100.      *)
C1_ScoreInRange == Returned => score \in 0..100

\* a call whose rounded running score is negative and is clamped to 0
C1_Witness ==
    /\ Returned
    /\ Len(redFlags) > 0
    /\ LET den == Den(Len(redFlags), Len(greenFlags))
       IN  MathRound(RunningScore(redFlags, greenFlags, den), den) < 0
    /\ score = 0

----------------------------------------------------------------------------
(* C2: when redFlags.length <= 2 the returned score is clamp(round(50 + sum *)
(* of w*confidence*0.8^i over red + sum of w*confidence*0.9^j over green)), *)
(* w being 0 for any type outside the table; two empty lists give 50.       *)
C2_FormulaUpToTwoRed ==
    (Returned /\ Len(redFlags) <= 2) =>
        LET den == Den(Len(redFlags), Len(greenFlags))
        IN  /\ IsRoundedClamped(score, ClaimUnscaled(redFlags, greenFlags, den), den)
            /\ (redFlags = <<>> /\ greenFlags = <<>>) => score = 50

\* C2 restricted to type strings that are not property names of Object.prototype
C2_FormulaOwnOrAbsentTypes ==
    (/\ Returned
     /\ Len(redFlags) <= 2
     /\ \A i \in 1..Len(redFlags) : redFlags[i].type \notin ObjectPrototypeKeys
     /\ \A j \in 1..Len(greenFlags) : greenFlags[j].type \notin ObjectPrototypeKeys) =>
        LET den == Den(Len(redFlags), Len(greenFlags))
        IN  IsRoundedClamped(score, ClaimUnscaled(redFlags, greenFlags, den), den)

----------------------------------------------------------------------------
(* C3: the pile-on penalty is applied iff redFlags.length > 2: with 0, 1 or *)
(* 2 red flags the running score is not scaled, with 3 or more it is        *)
(* multiplied by 0.8 exactly once, whatever the number of red flags.  The  *)
(* statement is checked of the call made and of the call with one more red  *)
(* flag appended.                                                           *)
C3_ScaledBy(red, green) ==
    LET den == Den(Len(red), Len(green))
        unscaled == ClaimUnscaled(red, green, den)
    IN  IF Len(red) >= 3
        THEN IsRoundedClamped(calculateTrustScore(red, green), 4 * unscaled, 5 * den)
        ELSE IsRoundedClamped(calculateTrustScore(red, green), unscaled, den)

C3_PenaltyIffMoreThanTwo ==
    Returned =>
        /\ score = calculateTrustScore(redFlags, greenFlags)
        /\ C3_ScaledBy(redFlags, greenFlags)
        /\ \A f \in RedFlagInputs : C3_ScaledBy(Append(redFlags, f), greenFlags)

\* three red flags whose scaled and unscaled scores differ
C3_Witness ==
    /\ Returned
    /\ Len(redFlags) = 3
    /\ LET den == Den(3, Len(greenFlags))
       IN  /\ score > 0
           /\ ~IsRoundedClamped(score, ClaimUnscaled(redFlags, greenFlags, den), den)

----------------------------------------------------------------------------
(* C4: for every red list R, green list G and red flag f of a known red     *)
(* type with confidence > 0, the score of R followed by f is strictly less  *)
(* than the score of R (both with G).                                       *)
C4_StrictlyLess ==
    Returned =>
        \A f \in RedFlagInputs :
            f.confidence > 0 =>
                calculateTrustScore(Append(redFlags, f), greenFlags) < score

(* C4, amended: the score of R followed by f is less than or equal to the   *)
(* score of R.                                                              *)
C4_NeverGreater ==
    Returned =>
        \A f \in RedFlagInputs :
            f.confidence > 0 =>
                calculateTrustScore(Append(redFlags, f), greenFlags) <= score

\* appending a red flag of positive confidence left a positive score unchanged
C4_Witness ==
    /\ Returned
    /\ score > 0
    /\ \E f \in RedFlagInputs :
          /\ f.confidence > 0
          /\ calculateTrustScore(Append(redFlags, f), greenFlags) = score

----------------------------------------------------------------------------
(* C5: for every red list R, green list G and high_verified_purchases flag  *)
(* g with confidence > 0, the score of G followed by g is strictly greater  *)
(* than the score of G (both with R).                                       *)
C5_StrictlyGreater ==
    Returned =>
        \A g \in GreenFlagInputs :
            g.confidence > 0 =>
                calculateTrustScore(redFlags, Append(greenFlags, g)) > score

(* C5, amended: the score of G followed by g is greater than or equal to the *)
(* score of G.                                                              *)
C5_NeverLess ==
    Returned =>
        \A g \in GreenFlagInputs :
            g.confidence > 0 =>
                calculateTrustScore(redFlags, Append(greenFlags, g)) >= score

\* appending a green flag of positive confidence left a score below 100 unchanged
C5_Witness ==
    /\ Returned
    /\ score < 100
    /\ \E g \in GreenFlagInputs :
          /\ g.confidence > 0
          /\ calculateTrustScore(redFlags, Append(greenFlags, g)) = score

----------------------------------------------------------------------------
(* C6: analyzeContentPatterns never throws or rejects: when reading the     *)
(* configuration fails, the external call fails, the response has no        *)
(* message content, the content is not JSON, or the parsed value fails      *)
(* validation, the call resolves to exactly {redFlags: []}.                 *)
C6_SomethingFailed ==
    \/ response.kind \in {"rejected", "no_content", "not_json", "json_other"}
    \/ (response.kind = "json" /\
          \E i \in 1..Len(response.redFlags) :
             \/ response.redFlags[i].type \notin
                   {"phrase_repetition", "excessive_positivity", "review_bombing"}
             \/ response.redFlags[i].confidence < 0
             \/ response.redFlags[i].confidence > ConfDen
             \/ ~DetailsValid(response.redFlags[i].type, response.redFlags[i].details))
    \/ (response.kind = "none" /\ ~envValid /\ validatedConfig = "null")

C6_NeverRejectsFailsOpen ==
    /\ analysis.settled # "rejected"
    /\ pc = "analyzed" =>
         /\ analysis.settled = "fulfilled"
         /\ C6_SomethingFailed => analysis.redFlags = <<>>

\* a call that ended after a failure: configuration, transport or validation
C6_Witness ==
    /\ pc = "analyzed"
    /\ response.kind = "json"
    /\ Len(response.redFlags) = 2
    /\ FlagValid(response.redFlags[1])
    /\ ~FlagValid(response.redFlags[2])
    /\ analysis = [settled |-> "fulfilled", redFlags |-> <<>>]

----------------------------------------------------------------------------
(* C7: every flag in the list returned by analyzeContentPatterns has a type *)
(* in {phrase_repetition, excessive_positivity, review_bombing}, a          *)
(* confidence in [0,1] and the details fields required for its type; a      *)
(* response holding a flag of another type (high_verified_purchases         *)
(* included) or a confidence outside [0,1] is never returned.               *)
C7_RequiredFields(type) ==
    CASE type = "phrase_repetition" -> {"phrase", "reviewIds"}
      [] type = "excessive_positivity" -> {"reviewIds"}
      [] type = "review_bombing" -> {"date", "reviewCount", "hoursSpan", "reviewIds"}
      [] OTHER -> {"no such type"}

C7_ReturnedFlagsValid ==
    /\ \A i \in 1..Len(analysis.redFlags) :
          LET flag == analysis.redFlags[i]
          IN  /\ flag.type \in {"phrase_repetition", "excessive_positivity", "review_bombing"}
              /\ flag.confidence >= 0
              /\ flag.confidence <= ConfDen
              /\ C7_RequiredFields(flag.type) \subseteq
                    (flag.details.present \ flag.details.illTyped)
    /\ (/\ response.kind = "json"
        /\ \E i \in 1..Len(response.redFlags) :
              \/ response.redFlags[i].type \notin
                    {"phrase_repetition", "excessive_positivity", "review_bombing"}
              \/ response.redFlags[i].confidence < 0
              \/ response.redFlags[i].confidence > ConfDen)
          => analysis.redFlags = <<>>

\* a validated response of two flags was returned
C7_Witness ==
    /\ pc = "analyzed"
    /\ Len(analysis.redFlags) = 2
    /\ analysis.redFlags[1].type = "review_bombing"
    /\ analysis.redFlags[2].confidence = ConfDen

----------------------------------------------------------------------------
(* A batch and a returned list as the specification words them *)

Detected == pc = "detected"

\* the positions of the batch whose review carries date string d
PositionsDated(d) == {i \in 1..Len(reviews) : reviews[i].date = d}

\* every string that is the date of a review of the batch
BatchDateStrings == {reviews[i].date : i \in {j \in 1..Len(reviews) : reviews[j].date # Undefined}}

\* the positions of the returned list whose flag is for date d
FlagsDated(d) == {k \in 1..Len(flags) : flags[k].details.date = d}

\* the ids of the reviews dated d, in batch order
RECURSIVE IdsDated(_, _)
IdsDated(d, i) ==
    IF i > Len(reviews) THEN <<>>
    ELSE IF reviews[i].date = d THEN <<reviews[i].id>> \o IdsDated(d, i + 1)
    ELSE IdsDated(d, i + 1)

----------------------------------------------------------------------------
(* C8: detectReviewBombing returns exactly one review_bombing flag for each *)
(* distinct date string shared by 4 or more reviews and no flag for a date  *)
(* shared by 3 or fewer, so the number of flags is the number of distinct   *)
(* dates with a group of size >= 4, whatever the ratings and verified       *)
(* values.                                                                  *)
C8_OneFlagPerDateString ==
    Detected =>
        /\ \A d \in BatchDateStrings :
              /\ Cardinality(PositionsDated(d)) >= 4 => Cardinality(FlagsDated(d)) = 1
              /\ Cardinality(PositionsDated(d)) <= 3 => FlagsDated(d) = {}
        /\ Len(flags) = Cardinality({d \in BatchDateStrings : Cardinality(PositionsDated(d)) >= 4})

(* C8, amended: the same for each distinct non-empty date string; reviews   *)
(* whose date is the empty string are never flagged.                        *)
C8_OneFlagPerNonEmptyDate ==
    Detected =>
        /\ \A k \in 1..Len(flags) : flags[k].type = "review_bombing"
        /\ \A d \in BatchDateStrings \ {""} :
              /\ Cardinality(PositionsDated(d)) >= 4 => Cardinality(FlagsDated(d)) = 1
              /\ Cardinality(PositionsDated(d)) <= 3 => FlagsDated(d) = {}
        /\ FlagsDated("") = {}
        /\ Len(flags) =
             Cardinality({d \in BatchDateStrings \ {""} : Cardinality(PositionsDated(d)) >= 4})

\* two dates of the batch are each shared by 4 reviews of differing verified
\* values and ratings, and two flags are returned
C8_Witness ==
    /\ Detected
    /\ Len(flags) = 2
    /\ \A d \in BatchDateStrings : Cardinality(PositionsDated(d)) = 4
    /\ \E i, j \in 1..Len(reviews) :
          /\ reviews[i].date = reviews[j].date
          /\ reviews[i].verified # reviews[j].verified
          /\ reviews[i].rating # reviews[j].rating

----------------------------------------------------------------------------
(* C9: a review without a date never takes part in review-bombing           *)
(* detection: its id appears in no flag's reviewIds, it is not counted in   *)
(* any flag's reviewCount, and adding or removing undated reviews leaves    *)
(* the output unchanged.                                                    *)
C9_IsDated(review) == review.date # Undefined

\* the batch with an undated review put in before position p
C9_WithUndatedAt(p) ==
    [i \in 1..(Len(reviews) + 1) |->
        IF i < p THEN reviews[i]
        ELSE IF i = p THEN [id |-> 0, date |-> Undefined, verified |-> FALSE, rating |-> 5]
        ELSE reviews[i - 1]]

C9_UndatedTakeNoPart ==
    Detected =>
        /\ \A k \in 1..Len(flags) :
              /\ \A i \in 1..Len(reviews) :
                    reviews[i].date = Undefined =>
                        \A m \in 1..Len(flags[k].details.reviewIds) :
                            flags[k].details.reviewIds[m] # reviews[i].id
              /\ flags[k].details.reviewCount
                    = Cardinality(PositionsDated(flags[k].details.date))
        /\ detectReviewBombing(SelectSeq(reviews, C9_IsDated)) = flags
        /\ \A p \in 1..(Len(reviews) + 1) : detectReviewBombing(C9_WithUndatedAt(p)) = flags

\* a flag was returned for a batch that holds 4 or more undated reviews
C9_Witness ==
    /\ Detected
    /\ flags # <<>>
    /\ Cardinality(PositionsDated(Undefined)) >= 4

----------------------------------------------------------------------------
(* C10: every flag emitted for a date d has details.date = d, hoursSpan =   *)
(* 24, reviewIds = the ids of exactly the reviews dated d in batch order,   *)
(* and reviewCount = the length of reviewIds.                               *)
C10_FlagDetails ==
    Detected =>
        \A k \in 1..Len(flags) :
            LET details == flags[k].details
            IN  /\ details.date \in BatchDateStrings
                /\ details.hoursSpan = 24
                /\ details.reviewIds = IdsDated(details.date, 1)
                /\ details.reviewCount = Len(details.reviewIds)

\* a flag whose reviews are not next to each other in the batch
C10_Witness ==
    /\ Detected
    /\ \E k \in 1..Len(flags) :
          /\ flags[k].details.reviewCount >= 4
          /\ flags[k].details.reviewCount < Len(reviews)
          /\ \E m \in 1..(Len(flags[k].details.reviewIds) - 1) :
                flags[k].details.reviewIds[m + 1] > flags[k].details.reviewIds[m] + 1

----------------------------------------------------------------------------
(* The calls of SpecLocal as the specification words them *)

Called(function) == function \in Range(callLog)

\* the number of reviews of the batch dated d, and of the unverified ones among them
GroupSize(d) == Cardinality(PositionsDated(d))
GroupUnverified(d) == Cardinality({i \in PositionsDated(d) : ~reviews[i].verified})

----------------------------------------------------------------------------
(* C11: the confidence of a review_bombing flag for a group of n reviews    *)
(* with u unverified ones is min(1.0, 0.5 + sizeBonus + unverifiedBonus +   *)
(* sameRatingBonus): sizeBonus 0.2 if n >= 10, 0.1 if 5 <= n <= 9, else 0;  *)
(* unverifiedBonus 0.2 if u/n > 0.7, 0.1 if 0.5 < u/n <= 0.7, else 0 (at    *)
(* exactly 70% it is 0.1, at exactly 50% it is 0); sameRatingBonus 0.1 iff  *)
(* all n ratings are equal; 5 same-date, all-unverified, all-rating-5       *)
(* reviews give 0.9.  Confidences are in units of 1/20.                     *)
C11_Expected(d) ==
    LET n == GroupSize(d)
        u == GroupUnverified(d)
        sizeBonus == IF n >= 10 THEN 4 ELSE IF 5 <= n /\ n <= 9 THEN 2 ELSE 0
        unverifiedBonus == IF 10 * u > 7 * n THEN 4
                           ELSE IF 2 * u > n /\ 10 * u <= 7 * n THEN 2
                           ELSE 0
        sameRatingBonus ==
            IF \A i, j \in PositionsDated(d) : reviews[i].rating = reviews[j].rating
            THEN 2 ELSE 0
    IN  Min(20, 10 + sizeBonus + unverifiedBonus + sameRatingBonus)

----------------------------------------------------------------------------
(* C12: detectHighVerifiedPurchases returns [] for an empty batch;          *)
(* otherwise, p being 100 * verifiedCount / total rounded to the nearest    *)
(* integer, it returns [] when p < 70 and exactly one                       *)
(* high_verified_purchases flag with details.percentage = p when p >= 70,   *)
(* of confidence 0.95 for p >= 90, 0.85 for 85..89, 0.75 for 80..84, 0.65   *)
(* for 75..79 and 0.55 for 70..74; a batch whose exact ratio lies in        *)
(* [69.5%, 70%) is flagged with percentage 70.                              *)
C12_Band(p) ==
    CASE p >= 90 -> 19
      [] p >= 85 /\ p <= 89 -> 17
      [] p >= 80 /\ p <= 84 -> 15
      [] p >= 75 /\ p <= 79 -> 13
      [] p >= 70 /\ p <= 74 -> 11

C12_VerifiedCount == Cardinality({i \in 1..Len(reviews) : reviews[i].verified})

C12_VerifiedPurchases ==
    Called("detectHighVerifiedPurchases") =>
        IF Len(reviews) = 0 THEN verifiedFlags = <<>>
        ELSE /\ \E p \in 0..100 :
                   \* p is the ratio in percent, rounded: p - 1/2 <= ratio < p + 1/2
                   /\ (2 * p - 1) * Len(reviews) <= 200 * C12_VerifiedCount
                   /\ 200 * C12_VerifiedCount < (2 * p + 1) * Len(reviews)
                   /\ p < 70 => verifiedFlags = <<>>
                   /\ p >= 70 =>
                        /\ Len(verifiedFlags) = 1
                        /\ verifiedFlags[1].type = "high_verified_purchases"
                        /\ verifiedFlags[1].details.percentage = p
                        /\ verifiedFlags[1].confidence = C12_Band(p)
             /\ (/\ 139 * Len(reviews) <= 200 * C12_VerifiedCount
                 /\ 10 * C12_VerifiedCount < 7 * Len(reviews))
                  => (Len(verifiedFlags) = 1 /\ verifiedFlags[1].details.percentage = 70)

\* a batch whose exact ratio is below 70% and at least 69.5% is flagged
C12_Witness ==
    /\ Called("detectHighVerifiedPurchases")
    /\ Len(reviews) > 0
    /\ 10 * C12_VerifiedCount < 7 * Len(reviews)
    /\ Len(verifiedFlags) = 1
    /\ verifiedFlags[1].details.percentage = 70
    /\ verifiedFlags[1].confidence = 11

----------------------------------------------------------------------------
(* C13: for every batch, the empty one included, detectLocalFlags returns a *)
(* record whose redFlags is exactly the list detectReviewBombing returns    *)
(* for the batch and whose greenFlags is exactly the list                   *)
(* detectHighVerifiedPurchases returns for it, in the same order; the empty *)
(* batch gives {redFlags: [], greenFlags: []}.                              *)
C13_LocalFlagsAreTheDetectors ==
    /\ (Called("detectLocalFlags") /\ reviews = <<>>) =>
          localAnalysis = [redFlags |-> <<>>, greenFlags |-> <<>>]
    /\ (Called("detectLocalFlags") /\ Called("detectReviewBombing")) =>
          localAnalysis.redFlags = flags
    /\ (Called("detectLocalFlags") /\ Called("detectHighVerifiedPurchases")) =>
          localAnalysis.greenFlags = verifiedFlags

\* the three were called on a batch that has two bombing flags and a green flag
C13_Witness ==
    /\ Called("detectLocalFlags")
    /\ Called("detectReviewBombing")
    /\ Called("detectHighVerifiedPurchases")
    /\ Len(flags) = 2
    /\ Len(verifiedFlags) = 1
    /\ Len(localAnalysis.redFlags) = 2
    /\ localAnalysis.redFlags[1].details.date # localAnalysis.redFlags[2].details.date

----------------------------------------------------------------------------
(* A handled request as the specification words it *)

Replied == pc = "replied"

\* the ids of the reviews of the batch
BatchIds == {reviews[i].id : i \in 1..Len(reviews)}

\* the body passes validation: it holds 1 to 100 reviews, none lacking a
\* required field
BodyValid ==
    /\ body.hasReviews
    /\ Len(body.reviews) >= 1
    /\ Len(body.reviews) <= 100
    /\ body.lacking = {}

\* the classification failed: the request was rejected, the response held no
\* content, content that is not JSON or JSON that fails validation, or the
\* request could not be made for want of a configuration
ClassificationFailed == Called("analyzeContentPatterns") /\ C6_SomethingFailed

----------------------------------------------------------------------------
(* C14: for every request handled, every id listed in details.reviewIds of  *)
(* every red flag placed in the response, whether the flag comes from the   *)
(* local detectors or from analyzeContentPatterns, is the id of a review of *)
(* the request's batch.                                                     *)
C14_ReviewIdsInBatch ==
    (Replied /\ reply.statusCode = 200) =>
        \A k \in 1..Len(reply.redFlags) :
            \A m \in 1..Len(reply.redFlags[k].details.reviewIds) :
                reply.redFlags[k].details.reviewIds[m] \in BatchIds

\* C14 of the flags of the local detectors alone
C14_LocalReviewIdsInBatch ==
    \A k \in 1..Len(localAnalysis.redFlags) :
        \A m \in 1..Len(localAnalysis.redFlags[k].details.reviewIds) :
            localAnalysis.redFlags[k].details.reviewIds[m] \in BatchIds

----------------------------------------------------------------------------
----------------------------------------------------------------------------
(* C16: fail open end to end: for every valid request, if the external      *)
(* classification call fails in any way, the handler still sends a          *)
(* successful response, never an error response, whose red and green flags  *)
(* are exactly those of detectLocalFlags(reviews) and whose trustScore is   *)
(* calculateTrustScore of those local flags alone.                          *)
C16_FailOpenEndToEnd ==
    /\ reply.statusCode # 500
    /\ (Replied /\ BodyValid) => reply.statusCode = 200
    /\ (Replied /\ BodyValid /\ ClassificationFailed) =>
          /\ reply.redFlags = detectLocalFlags(reviews).redFlags
          /\ reply.greenFlags = detectLocalFlags(reviews).greenFlags
          /\ reply.hasRedFlags = (detectLocalFlags(reviews).redFlags # <<>>)
          /\ reply.hasGreenFlags = (detectLocalFlags(reviews).greenFlags # <<>>)
          /\ reply.trustScore = calculateTrustScore(detectLocalFlags(reviews).redFlags,
                                                    detectLocalFlags(reviews).greenFlags)

\* a rejected request, answered with the local red and green flags
C16_Witness ==
    /\ Replied
    /\ response.kind = "rejected"
    /\ reply.statusCode = 200
    /\ reply.hasRedFlags
    /\ reply.hasGreenFlags

----------------------------------------------------------------------------
(* C17: for every non-empty valid batch in which every review is verified   *)
(* and no date string is shared by 4 or more reviews, when the classifier   *)
(* returns no flags the response has trustScore 69, exactly one green flag, *)
(* of type high_verified_purchases with percentage 100 and confidence 0.95, *)
(* and no redFlags field.                                                   *)
C17_AllVerifiedScores69 ==
    (/\ Replied
     /\ reply.statusCode = 200
     /\ Len(reviews) > 0
     /\ \A i \in 1..Len(reviews) : reviews[i].verified
     /\ \A d \in BatchDateStrings : Cardinality(PositionsDated(d)) < 4
     /\ analysis.redFlags = <<>>) =>
        /\ reply.trustScore = 69
        /\ reply.hasGreenFlags
        /\ reply.greenFlags = <<[type |-> "high_verified_purchases",
                                 confidence |-> 19,
                                 details |-> [percentage |-> 100]]>>
        /\ ~reply.hasRedFlags

\* such a reply for a batch of two dates of three reviews each
C17_Witness ==
    /\ Replied
    /\ Len(reviews) = 6
    /\ \A i \in 1..Len(reviews) : reviews[i].verified
    /\ Cardinality(BatchDateStrings) = 2
    /\ response.kind = "json"
    /\ analysis.redFlags = <<>>
    /\ reply.trustScore = 69

----------------------------------------------------------------------------
----------------------------------------------------------------------------
(* C20: when the request body fails validation (reviews missing, empty,     *)
(* more than 100 entries, or a review lacking a required field) the handler *)
(* replies with status 400 and invokes none of detectLocalFlags,            *)
(* analyzeContentPatterns and calculateTrustScore; those three are invoked  *)
(* only for a body that passed validation.                                  *)
C20_InvalidBodyIs400 ==
    /\ (Replied /\ ~BodyValid) => reply.statusCode = 400
    /\ ~BodyValid =>
          /\ callLog = <<>>
          /\ requests = 0
          /\ analysis.settled = "none"
          /\ score = BASE_SCORE
    /\ callLog # <<>> => BodyValid

\* a body of 101 reviews was answered with 400
C20_Witness ==
    /\ Replied
    /\ body.hasReviews
    /\ Len(body.reviews) = 101
    /\ body.lacking = {}
    /\ reply.statusCode = 400

----------------------------------------------------------------------------
(* C21: for the red flags review_bombing (confidence c1), phrase_repetition *)
(* (c2), excessive_positivity (c3) in that order and no green flags,        *)
(* calculateTrustScore returns a value below 20 for every c1 in [0.8, 1],   *)
(* c2 in [0.7, 1], c3 in [0.6, 1], and exactly 14 at c1 = 0.8, c2 = 0.7,    *)
(* c3 = 0.6.                                                                *)
C21_ScenarioCBelow20 ==
    (/\ Returned
     /\ greenFlags = <<>>
     /\ \E c1 \in 16..20, c2 \in 14..20, c3 \in 12..20 :
           redFlags = ScenarioCRed(c1, c2, c3))
    => /\ score < 20
       /\ redFlags = ScenarioCRed(16, 14, 12) => score = 14

\* the call at 0.8, 0.7, 0.6 returned 14
C21_Witness ==
    /\ Returned
    /\ redFlags = ScenarioCRed(16, 14, 12)
    /\ greenFlags = <<>>
    /\ score = 14

----------------------------------------------------------------------------
\* the reviews of the batch dated d, in batch order
C22_Group(d) == SelectSeq(reviews, LAMBDA review : review.date = d)

\* the doubles nearest to 0.5, 0.6, 0.7, 0.8, 0.9 and 1.0, by their numerator over ConfDen
C22_Tenth(units) ==
    CASE units = 10 -> Double_0_5
      [] units = 12 -> Double(161061273, 161061272)
      [] units = 14 -> Double(187904819, 53687088)
      [] units = 16 -> Double(214748364, 214748368)
      [] units = 18 -> Double(241591910, 107374184)
      [] units = 20 -> Double_1_0

\* the double next below d (d not a power of two, between 0.5 and 1.0 inclusive)
C22_OneUlpBelow(d) ==
    IF d.lo >= 8 THEN Double(d.hi, d.lo - 8) ELSE Double(d.hi - 1, d.lo + DoubleLimb - 8)

\* what the claim says of the flags of the verified-purchase detector
C22_GreenConfidences ==
    \A k \in 1..Len(localAnalysis.greenFlags) :
        LET flag == localAnalysis.greenFlags[k]
        IN  /\ flag.type = "high_verified_purchases"
            /\ flag.confidence \in {11, 13, 15, 17, 19}
            /\ flag.details.percentage \in 70..100

(* C22: every flag produced by detectLocalFlags has a confidence in [0, 1]: *)
(* every review_bombing flag has a confidence in {0.5, 0.6, 0.7, 0.8, 0.9,  *)
(* 1.0}, so the clamp to 1.0 never lowers the computed sum, and every       *)
(* high_verified_purchases flag has a confidence in {0.55, 0.65, 0.75,      *)
(* 0.85, 0.95} and a percentage between 70 and 100.                         *)
C22_ConfidencesAreTenths ==
    Called("detectLocalFlags") =>
        /\ \A k \in 1..Len(localAnalysis.redFlags) :
              LET flag == localAnalysis.redFlags[k]
              IN  /\ flag.type = "review_bombing"
                  /\ flag.confidenceDouble \in {C22_Tenth(u) : u \in {10, 12, 14, 16, 18, 20}}
                  /\ ConfidenceSum(C22_Group(flag.details.date)) = flag.confidenceDouble
        /\ C22_GreenConfidences

(* C22, amended: the confidence of every review_bombing flag is at least    *)
(* 0.5 and below 1.0 and is either the double nearest to one of 0.5, 0.6,   *)
(* 0.7, 0.8, 0.9 or the double one ulp (2^-53) below one of 0.8, 0.9, 1.0;  *)
(* it is the computed sum, which the clamp to 1.0 never lowers; the part    *)
(* on high_verified_purchases flags is unchanged.                           *)
C22_ConfidencesNearTenths ==
    Called("detectLocalFlags") =>
        /\ \A k \in 1..Len(localAnalysis.redFlags) :
              LET flag == localAnalysis.redFlags[k]
                  tenth == C22_Tenth(flag.confidence)
              IN  /\ flag.type = "review_bombing"
                  /\ flag.confidence \in {10, 12, 14, 16, 18, 20}
                  /\ \/ flag.confidence <= 18 /\ flag.confidenceDouble = tenth
                     \/ flag.confidence >= 16 /\ flag.confidenceDouble = C22_OneUlpBelow(tenth)
                  /\ ~DoubleLess(flag.confidenceDouble, Double_0_5)
                  /\ DoubleLess(flag.confidenceDouble, Double_1_0)
                  /\ ConfidenceSum(C22_Group(flag.details.date)) = flag.confidenceDouble
        /\ C22_GreenConfidences

\* four reviews of one date, all unverified and of one rating, are flagged
\* with 0.5 + 0.2 + 0.1 = 0.7999999999999999
C22_Witness ==
    /\ Called("detectLocalFlags")
    /\ \E k \in 1..Len(localAnalysis.redFlags) :
          LET flag == localAnalysis.redFlags[k]
          IN  /\ flag.details.reviewCount = 4
              /\ GroupUnverified(flag.details.date) = 4
              /\ flag.confidence = 16
              /\ flag.confidenceDouble = Double(214748364, 214748360)

----------------------------------------------------------------------------
\* a flag field of the response: its list, the empty list when it is omitted
C23_Field(present, list) == IF present THEN list ELSE <<>>

(* C23: in every successful response of checkAmazonProductHandler,          *)
(* summary.trustScore equals calculateTrustScore applied to exactly the red *)
(* and green flag lists of that response (an omitted field standing for the *)
(* empty list), the redFlags field is present iff the combined red list     *)
(* (local flags, then classifier flags) is non-empty, the greenFlags field  *)
(* is present iff the green list is non-empty, and metrics.analyzed =       *)
(* metrics.total = the number of reviews in the request.                    *)
C23_ResponseConsistent ==
    (Replied /\ reply.statusCode = 200) =>
        LET combined == localAnalysis.redFlags \o analysis.redFlags
        IN  /\ reply.trustScore =
                  calculateTrustScore(C23_Field(reply.hasRedFlags, reply.redFlags),
                                      C23_Field(reply.hasGreenFlags, reply.greenFlags))
            /\ reply.hasRedFlags <=> combined # <<>>
            /\ reply.hasRedFlags => reply.redFlags = combined
            /\ reply.hasGreenFlags <=> localAnalysis.greenFlags # <<>>
            /\ reply.hasGreenFlags => reply.greenFlags = localAnalysis.greenFlags
            /\ reply.analyzed = Len(body.reviews)
            /\ reply.total = Len(body.reviews)

\* a response with a red list of a local and a classifier flag and no
\* greenFlags field, for a request of 5 reviews
C23_Witness ==
    /\ Replied
    /\ reply.statusCode = 200
    /\ reply.hasRedFlags
    /\ Len(localAnalysis.redFlags) = 1
    /\ Len(analysis.redFlags) = 1
    /\ Len(reply.redFlags) = 2
    /\ ~reply.hasGreenFlags
    /\ reply.analyzed = 5
    /\ reply.trustScore < BASE_SCORE

----------------------------------------------------------------------------
\* the step is a call of `function`
C24_Call(function) ==
    /\ result'.call = result.call + 1
    /\ result'.function = function

(* C24: getConfig caches: after one call has succeeded, every later call    *)
(* returns the very same configuration object without reading the           *)
(* environment again, even if environment variables changed in between,     *)
(* until resetConfigForTests is called; resetConfigForTests throws and      *)
(* leaves the cached configuration unchanged when the VITEST environment    *)
(* variable is not set.                                                     *)
C24_CachedUntilReset ==
    [][/\ (C24_Call("getConfig") /\ ~result'.threw) =>
              /\ validatedConfig' = "config"
              /\ configObject' = result'.value
       /\ (C24_Call("getConfig") /\ validatedConfig = "config") =>
              /\ ~result'.threw
              /\ result'.value = configObject
              /\ parses' = parses
              /\ validatedConfig' = "config"
              /\ configObject' = configObject
       /\ (validatedConfig = "config"
             /\ (validatedConfig' # "config" \/ configObject' # configObject)) =>
              C24_Call("resetConfigForTests")
       /\ (C24_Call("resetConfigForTests") /\ env.VITEST = Unset) =>
              /\ result'.threw
              /\ validatedConfig' = validatedConfig
              /\ configObject' = configObject]_vars

\* a later call returned the object of the first parse although the
\* environment no longer passes the schema and holds another key
C24_Witness ==
    /\ result.function = "getConfig"
    /\ ~result.threw
    /\ result.call >= 2
    /\ parses = 1
    /\ result.value = configObject
    /\ result.value.object = 1
    /\ result.value.OPENAI_API_KEY = "key-a"
    /\ env.OPENAI_API_KEY = Unset
    /\ ~envValid

----------------------------------------------------------------------------
(* C25: the trust score in any response of checkAmazonProductHandler is at  *)
(* most 69: the green flags handed to the calculator are those of the local *)
(* verified-purchase detector, at most one flag, of confidence at most      *)
(* 0.95, and every red flag handed to it has an impact (weight times        *)
(* confidence) that is not positive, so no score lies in 70..100.           *)
C25_ScoreAtMost69 ==
    (Replied /\ reply.statusCode = 200) =>
        /\ reply.trustScore <= 69
        /\ reply.trustScore \notin 70..100
        /\ greenFlags = localAnalysis.greenFlags
        /\ Len(greenFlags) <= 1
        /\ \A j \in 1..Len(greenFlags) :
              /\ greenFlags[j].type = "high_verified_purchases"
              /\ greenFlags[j].confidence <= 19
        /\ \A i \in 1..Len(redFlags) :
              ClaimWeight(redFlags[i].type) * redFlags[i].confidence <= 0

\* the score 69 was reached for 8 reviews while the classifier request failed
C25_Witness ==
    /\ Replied
    /\ reply.statusCode = 200
    /\ Len(reviews) = 8
    /\ response.kind = "rejected"
    /\ Len(greenFlags) = 1
    /\ redFlags = <<>>
    /\ reply.trustScore = 69

----------------------------------------------------------------------------
\* an element of the response fails validation: its type is not one of the
\* three, its confidence is outside [0, 1], or its details lack a required
\* field or hold an ill-typed one
C26_Fails(flag) ==
    \/ flag.type \notin {"phrase_repetition", "excessive_positivity", "review_bombing"}
    \/ flag.confidence < 0
    \/ flag.confidence > ConfDen
    \/ ~(C7_RequiredFields(flag.type) \subseteq flag.details.present)
    \/ DetailsKeys(flag.type) \cap flag.details.illTyped # {}

(* C26: classifier validation is all-or-nothing: if at least one element of *)
(* the redFlags array of the external response fails validation,            *)
(* analyzeContentPatterns returns the empty list and none of the other,     *)
(* individually valid, flags of that response; the result is either the     *)
(* complete validated list in response order or [].                         *)
C26_AllOrNothing ==
    (pc = "analyzed" /\ response.kind = "json") =>
        LET given == response.redFlags
            returned == analysis.redFlags
        IN  /\ (\E i \in 1..Len(given) : C26_Fails(given[i])) => returned = <<>>
            /\ (\A i \in 1..Len(given) : ~C26_Fails(given[i])) =>
                  /\ Len(returned) = Len(given)
                  /\ \A i \in 1..Len(given) :
                        /\ returned[i].type = given[i].type
                        /\ returned[i].confidence = given[i].confidence
                        /\ returned[i].details.reviewIds = given[i].details.reviewIds
            /\ returned = <<>> \/ Len(returned) = Len(given)

\* a response whose first flag fails and whose second flag is valid was
\* answered with the empty list
C26_Witness ==
    /\ pc = "analyzed"
    /\ response.kind = "json"
    /\ Len(response.redFlags) = 2
    /\ C26_Fails(response.redFlags[1])
    /\ FlagValid(response.redFlags[2])
    /\ analysis.redFlags = <<>>

----------------------------------------------------------------------------
\* the position at which date string d first occurs in the batch
C27_FirstPosition(d) ==
    CHOOSE i \in PositionsDated(d) : \A j \in PositionsDated(d) : i <= j

\* the sum of reviewCount over the first k flags
RECURSIVE C27_ReviewCounts(_)
C27_ReviewCounts(k) ==
    IF k = 0 THEN 0 ELSE flags[k].details.reviewCount + C27_ReviewCounts(k - 1)

\* the reviews of the batch that carry a date (a non-empty string)
C27_DatedReviews == {i \in 1..Len(reviews) : reviews[i].date \notin {Undefined, ""}}

(* C27: in the list returned by detectReviewBombing the flags have pairwise *)
(* distinct dates and appear in the order in which their dates first occur  *)
(* in the batch; review ids being unique in the batch, no review id appears *)
(* in more than one flag, and the sum of the flags' reviewCount is at most  *)
(* the number of dated reviews of the batch.                                *)
C27_DistinctDatesInBatchOrder ==
    (Detected /\ Cardinality(BatchIds) = Len(reviews)) =>
        /\ \A k \in 1..Len(flags) : PositionsDated(flags[k].details.date) # {}
        /\ \A k, l \in 1..Len(flags) :
              k < l =>
                 /\ flags[k].details.date # flags[l].details.date
                 /\ C27_FirstPosition(flags[k].details.date)
                      < C27_FirstPosition(flags[l].details.date)
                 /\ Range(flags[k].details.reviewIds)
                      \cap Range(flags[l].details.reviewIds) = {}
        /\ C27_ReviewCounts(Len(flags)) <= Cardinality(C27_DatedReviews)

\* two flags of four reviews each were returned, the first for the date
\* that sorts last, which is the date of the first review
C27_Witness ==
    /\ Detected
    /\ Len(flags) = 2
    /\ reviews[1].date = "2024-01-16"
    /\ flags[1].details.date = "2024-01-16"
    /\ flags[2].details.date = "2024-01-15"
    /\ C27_ReviewCounts(2) = 8
    /\ Cardinality(C27_DatedReviews) = 8

----------------------------------------------------------------------------
\* |w(flag) * confidence(flag)|, over ConfDen
C28_Magnitude(flag) ==
    LET impact == ClaimWeight(flag.type) * flag.confidence
    IN  IF impact < 0 THEN -impact ELSE impact

\* the list with the flags at positions i and i + 1 exchanged
C28_Swapped(flagList, i) ==
    [k \in 1..Len(flagList) |->
        IF k = i THEN flagList[i + 1]
        ELSE IF k = i + 1 THEN flagList[i]
        ELSE flagList[k]]

(* C28: calculateTrustScore is order-sensitive inside the red list: for two *)
(* adjacent red flags a, b with |w(a) * confidence(a)| >= |w(b) *           *)
(* confidence(b)|, the list with a before b scores less than or equal to    *)
(* the same list with a and b exchanged; the score is not invariant under   *)
(* permutation: review_bombing then excessive_positivity, both of           *)
(* confidence 1.0, score 17, the reverse order scores 20.                   *)
C28_OrderSensitive ==
    Returned =>
        /\ \A i \in 1..(Len(redFlags) - 1) :
              C28_Magnitude(redFlags[i]) >= C28_Magnitude(redFlags[i + 1]) =>
                  score <= calculateTrustScore(C28_Swapped(redFlags, i), greenFlags)
        /\ (/\ redFlags = <<Flag("review_bombing", ConfDen),
                            Flag("excessive_positivity", ConfDen)>>
            /\ greenFlags = <<>>) =>
              /\ score = 17
              /\ calculateTrustScore(C28_Swapped(redFlags, 1), greenFlags) = 20

\* review_bombing then excessive_positivity at confidence 1.0 scored 17 and
\* the exchanged list scores more
C28_Witness ==
    /\ Returned
    /\ redFlags = <<Flag("review_bombing", ConfDen), Flag("excessive_positivity", ConfDen)>>
    /\ greenFlags = <<>>
    /\ score = 17
    /\ calculateTrustScore(C28_Swapped(redFlags, 1), greenFlags) > score

----------------------------------------------------------------------------
\* every flag of the list has confidence 0
C29_AllZero(flagList) == \A i \in 1..Len(flagList) : flagList[i].confidence = 0

(* C29: the pile-on penalty depends only on the number of red flags, not on *)
(* their confidence or weight: three red flags of confidence 0 and no green *)
(* flags give 40, not the base score 50, and with more than two red flags   *)
(* the factor 0.8 also scales the base score and the green-flag rewards.    *)
C29_PenaltyByCountAlone ==
    Returned =>
        LET den == Den(Len(redFlags), Len(greenFlags))
            rewards == ClaimDecayedSum(greenFlags, Len(greenFlags), 9, 10, den)
        IN  /\ (Len(redFlags) = 3 /\ C29_AllZero(redFlags) /\ greenFlags = <<>>) =>
                  score = 40
            /\ (Len(redFlags) > 2 /\ C29_AllZero(redFlags)) =>
                  IsRoundedClamped(score, 4 * (50 * den + rewards), 5 * den)
            /\ (Len(redFlags) <= 2 /\ C29_AllZero(redFlags)) =>
                  IsRoundedClamped(score, 50 * den + rewards, den)
            /\ Len(redFlags) > 2 =>
                  IsRoundedClamped(score,
                      4 * (50 * den + rewards
                             + ClaimDecayedSum(redFlags, Len(redFlags), 4, 5, den)),
                      5 * den)

\* three red flags of confidence 0 and one green flag of confidence 1.0
\* scored 0.8 * (50 + 20) = 56
C29_Witness ==
    /\ Returned
    /\ Len(redFlags) = 3
    /\ C29_AllZero(redFlags)
    /\ greenFlags = <<Flag("high_verified_purchases", ConfDen)>>
    /\ score = 56

----------------------------------------------------------------------------
(* C30: appending a red flag never raises the score: for every red list R,  *)
(* every list G of high_verified_purchases flags and every red flag f of a  *)
(* known red type with confidence in [0, 1] (0 included), the score of R    *)
(* followed by f is less than or equal to the score of R, both with G; this *)
(* includes the step from 2 to 3 red flags, where the pile-on factor first  *)
(* applies.                                                                 *)
C30_AppendNeverRaises ==
    (/\ Returned
     /\ \A j \in 1..Len(greenFlags) : greenFlags[j].type = "high_verified_purchases") =>
        \A t \in {"review_bombing", "phrase_repetition", "excessive_positivity"},
           c \in ConfValues :
            calculateTrustScore(Append(redFlags, Flag(t, c)), greenFlags) <= score

\* a red flag of confidence 0 appended to two red flags lowers a score
\* that green flags have raised: the pile-on factor applies for the first time
C30_Witness ==
    /\ Returned
    /\ Len(redFlags) = 2
    /\ Len(greenFlags) = 2
    /\ score > BASE_SCORE
    /\ calculateTrustScore(Append(redFlags, Flag("phrase_repetition", 0)), greenFlags) < score

====
